---- MODULE Spec2Model ----
(***************************************************************************)
(* A model of the extraction and plan-compilation core of the repository:  *)
(*   - scripts/playwright-bridge.mjs : actionToSteps and the per-method    *)
(*     compile loop with its auto-insert post-pass (the Plan Compiler),    *)
(*   - extract-actions.mjs (src/unnamed/part_003) : splitTestMethods       *)
(*     (the Method Segmenter),                                             *)
(*   - mcp/junit-validator/tools/validate-syntax.mjs : validateSyntax      *)
(*     (the Syntax Well-formedness Checker),                               *)
(*   - extract-actions.mjs : byToSelector (the Locator Normalizer) and     *)
(*     extractActionsFromBody (the Action Recognizer),                     *)
(*   - mcp/junit-validator/index.mjs and tools/compile.mjs : handleTool,   *)
(*     the CallToolRequestSchema handler and compile (the tool server).    *)
(*                                                                         *)
(* JavaScript strings are modelled as sequences of one-character strings   *)
(* so that startsWith, slice and indexing are computed, not assumed.       *)
(* JavaScript objects are records; an absent property is an absent field.  *)
(***************************************************************************)
EXTENDS Integers, Sequences, FiniteSets, TLC

VARIABLES
    \* ---- Plan Compiler (playwright-bridge.mjs) ----
    baseUrl,          \* const baseUrl = process.argv[3] ?? "http://localhost:8080"
    actions,          \* method.actions of the method being compiled
    idx,              \* position of the for-of loop in method.actions (0-based)
    seq,              \* let seq
    snapshotted,      \* const snapshotted = new Set()
    currentUrl,       \* let currentUrl
    playwrightSteps,  \* const playwrightSteps = []
    pc,               \* "idle" | "loop" (the for-of loop) | "post" (the post-pass) | "done"
    \* ---- Method Segmenter (extract-actions.mjs, splitTestMethods) ----
    code,             \* the source text (also the input of validateSyntax)
    lastIndex,        \* testMethodRe.lastIndex
    methods,          \* const methods = []
    spans,            \* for each pushed method, the locals startBrace and i at the push
    spc,              \* "idle" | "scan" (the while loop) | "done" (returned)
    \* ---- Syntax Well-formedness Checker (validate-syntax.mjs) ----
    marks,            \* what the regular expressions and includes() tests find in the text
    injected,         \* where a brace was inserted into the text before the call, if one was
    result,           \* the record validateSyntax returned
    vpc,              \* "idle" | "call" (before the call) | "done" (returned)
    \* ---- Locator Normalizer and Action Recognizer (extract-actions.mjs) ----
    byExpr,           \* the argument of byToSelector
    normalized,       \* the string byToSelector returned
    description,      \* selectorToDescription(normalized)
    lpc,              \* "idle" | "call" | "normalized" | "described"
    body,             \* the argument of extractActionsFromBody
    extracted,        \* const actions = [] of extractActionsFromBody, as returned
    epc,              \* "idle" | "call" | "done" (returned)
    \* ---- Tool server (index.mjs, compile.mjs) ----
    tool,             \* request.params: the tool name and what the arguments hold
    world,            \* what the file system and the javac child process will do
    handled,          \* how handleTool ended: the value returned or the exception thrown
    response,         \* what the CallToolRequestSchema handler returned to the host
    tpc               \* "idle" | "request" | "handled" | "responded"

compileVars == <<baseUrl, actions, idx, seq, snapshotted, currentUrl,
                 playwrightSteps, pc>>

splitVars == <<lastIndex, methods, spans, spc>>

syntaxVars == <<marks, injected, result, vpc>>

extractVars == <<byExpr, normalized, description, lpc, body, extracted, epc>>

toolVars == <<tool, world, handled, response, tpc>>

vars == <<compileVars, code, splitVars, syntaxVars, extractVars, toolVars>>

----------------------------------------------------------------------------
(* Strings *)

\* String.prototype.startsWith
StartsWith(s, p) ==
    /\ Len(s) >= Len(p)
    /\ \A i \in 1..Len(p) : s[i] = p[i]

\* String.prototype.slice(n) (n >= 0)
SliceFrom(s, n) == IF n >= Len(s) THEN <<>> ELSE SubSeq(s, n + 1, Len(s))

----------------------------------------------------------------------------
(* Bounds and input domains *)

MaxActions == 3

\* the default base URL and one that coincides with a literal URL of the input
DefaultBaseUrl == <<"h", ":", "8", "0", "8", "0">>
BaseUrls == { DefaultBaseUrl, <<"a">> }

\* literal URLs and a deferred-value placeholder "{{ expr }}"
Urls == { <<"a">>, <<"b">>, <<"{", "{", " ", "v", " ", "}", "}">> }

SelX == <<"#", "x">>
SelY == <<".", "y">>

KnownTypes == { "navigate", "fill", "click", "clear", "wait", "assert_text",
                "get_text", "assert_true", "assert_false", "count_elements" }

\* a type the switch of actionToSteps has no case for
UnknownType == "hover"

ActionSet ==
    { [type |-> "navigate", url |-> u] : u \in Urls }
    \cup { [type |-> "fill", selector |-> SelX, value |-> <<"v">>] }
    \cup { [type |-> "click", selector |-> s] : s \in {SelX, SelY} }
    \cup { [type |-> t, selector |-> SelX] :
             t \in {"clear", "get_text", "wait", "count_elements", UnknownType} }
    \cup { [type |-> "assert_text", selector |-> SelX, expected |-> <<"e">>] }
    \cup { [type |-> t, expression |-> <<"p">>] : t \in {"assert_true", "assert_false"} }

ActionLists == UNION { [1..n -> ActionSet] : n \in 0..MaxActions }

----------------------------------------------------------------------------
(* seq numbers.  The post-pass unshifts steps numbered 0.1 and 0.2, so a   *)
(* seq is held as <<whole part, tenths>>.                                  *)

Whole(n) == <<n, 0>>
Tenths(t) == <<0, t>>

----------------------------------------------------------------------------
(* selectorToDescription (playwright-bridge.mjs) *)

NamePrefix == <<"[", "n", "a", "m", "e", "=">>
Quote == "\""

\* index just past the maximal run of non-quote characters starting at i (1-based)
RECURSIVE RunEnd(_, _)
RunEnd(s, i) == IF i <= Len(s) /\ s[i] # Quote THEN RunEnd(s, i + 1) ELSE i

\* selector.match(/\[name="([^"]+)"\]/)?.[1] ?? selector
\* a match at p is  [name="  then one or more non-quote characters, then  "]
NameMatchAt(s, p) ==
    LET q == p + Len(NamePrefix) + 1       \* first character of the group
        e == RunEnd(s, q)                  \* the closing quote, if it is one
    IN  /\ p + Len(NamePrefix) <= Len(s)
        /\ SubSeq(s, p, p + Len(NamePrefix) - 1) = NamePrefix
        /\ s[p + Len(NamePrefix)] = Quote
        /\ e > q
        /\ e + 1 <= Len(s)
        /\ s[e] = Quote
        /\ s[e + 1] = "]"

NameGroup(s) ==
    LET starts == { p \in 1..Len(s) : NameMatchAt(s, p) }
    IN  IF starts = {} THEN s
        ELSE LET p == CHOOSE x \in starts : \A y \in starts : x <= y
                 q == p + Len(NamePrefix) + 1
             IN  SubSeq(s, q, RunEnd(s, q) - 1)

selectorToDescription(selector) ==
    IF StartsWith(selector, <<"#">>)
      THEN <<"element with id=", Quote>> \o SliceFrom(selector, 1) \o <<Quote>>
    ELSE IF StartsWith(selector, <<".">>)
      THEN <<"element with class=", Quote>> \o SliceFrom(selector, 1) \o <<Quote>>
    ELSE IF StartsWith(selector, NamePrefix)
      THEN <<"input with name=", Quote>> \o NameGroup(selector) \o <<Quote>>
    ELSE IF StartsWith(selector, <<"t", "e", "x", "t", "=">>)
      THEN <<"element with text ", Quote>> \o SliceFrom(selector, 5) \o <<Quote>>
    ELSE IF StartsWith(selector, <<"x", "p", "a", "t", "h", "=">>)
      THEN <<"element at xpath ">> \o SliceFrom(selector, 6)
    ELSE selector

----------------------------------------------------------------------------
(* actionToSteps (playwright-bridge.mjs).  The Set and the counters the    *)
(* function mutates are returned with the steps.                           *)

RefPlaceholder == "{{ resolve ref from latest snapshot }}"

\* the browser_snapshot step pushed when the current URL is not in `snapshotted`
AutoSnapshot(s, why) ==
    [seq |-> Whole(s), mcp_tool |-> "browser_snapshot", args |-> <<>>,
     note |-> <<why>>, snapshot_marker |-> TRUE]

\* mutant of NeedsSnapshot: a snapshot is inserted whatever the fresh set holds
NeedsSnapshotAlways(snap, cur) == TRUE

\* if (!snapshotted.has(currentUrl)) { steps.push(snapshot); snapshotted.add(currentUrl) }
NeedsSnapshot(snap, cur) == cur \notin snap

SnapshotFirst(s, snap, cur, why) ==
    IF NeedsSnapshot(snap, cur) THEN <<AutoSnapshot(s, why)>> ELSE <<>>

\* mutant of NavigateSteps: the target is not marked snapshot-fresh
NavigateStepsStale(action, s, snap, cur, base) ==
    LET url == IF StartsWith(action.url, <<"{", "{">>) THEN base ELSE action.url
    IN  [steps |-> << [seq |-> Whole(s), mcp_tool |-> "browser_navigate",
                       args |-> [url |-> url], note |-> <<"Navigate to ", url>>],
                      [seq |-> Whole(s + 1), mcp_tool |-> "browser_snapshot",
                       args |-> <<>>,
                       note |-> <<"Capture accessibility snapshot to resolve element refs">>,
                       snapshot_marker |-> TRUE] >>,
         nextSeq |-> s + 2,
         snapshotted |-> snap,
         currentUrl |-> url]

\* case "navigate"
NavigateSteps(action, s, snap, cur, base) ==
    LET url == IF StartsWith(action.url, <<"{", "{">>) THEN base ELSE action.url
    IN  [steps |-> << [seq |-> Whole(s), mcp_tool |-> "browser_navigate",
                       args |-> [url |-> url], note |-> <<"Navigate to ", url>>],
                      [seq |-> Whole(s + 1), mcp_tool |-> "browser_snapshot",
                       args |-> <<>>,
                       note |-> <<"Capture accessibility snapshot to resolve element refs">>,
                       snapshot_marker |-> TRUE] >>,
         nextSeq |-> s + 2,
         snapshotted |-> snap \cup {url},
         currentUrl |-> url]

FillSteps(action, s, snap, cur) ==
    LET pre == SnapshotFirst(s, snap, cur, "Snapshot before fill (auto-inserted)")
        n   == s + Len(pre)
    IN  [steps |-> pre \o
           << [seq |-> Whole(n), mcp_tool |-> "browser_fill_form",
               args_template |-> [fields |-> << [element |-> selectorToDescription(action.selector),
                                                  ref |-> RefPlaceholder,
                                                  value |-> action.value] >>],
               selector_hint |-> action.selector,
               original_action |-> action,
               note |-> <<"Fill ", action.selector, action.value>>,
               locator_status |-> "pending"] >>,
         nextSeq |-> n + 1,
         snapshotted |-> snap \cup {cur},
         currentUrl |-> cur]

\* mutant of ClickSteps: the click step is pushed without locator_status
ClickStepsNoStatus(action, s, snap, cur) ==
    LET pre == SnapshotFirst(s, snap, cur, "Snapshot before click (auto-inserted)")
        n   == s + Len(pre)
    IN  [steps |-> pre \o
           << [seq |-> Whole(n), mcp_tool |-> "browser_click",
               args_template |-> [element |-> selectorToDescription(action.selector),
                                  ref |-> RefPlaceholder],
               selector_hint |-> action.selector,
               original_action |-> action,
               note |-> <<"Click ", action.selector>>] >>,
         nextSeq |-> n + 1,
         snapshotted |-> snap \ {cur},
         currentUrl |-> cur]

ClickSteps(action, s, snap, cur) ==
    LET pre == SnapshotFirst(s, snap, cur, "Snapshot before click (auto-inserted)")
        n   == s + Len(pre)
    IN  [steps |-> pre \o
           << [seq |-> Whole(n), mcp_tool |-> "browser_click",
               args_template |-> [element |-> selectorToDescription(action.selector),
                                  ref |-> RefPlaceholder],
               selector_hint |-> action.selector,
               original_action |-> action,
               note |-> <<"Click ", action.selector>>,
               locator_status |-> "pending"] >>,
         nextSeq |-> n + 1,
         snapshotted |-> snap \ {cur},          \* snapshotted.delete(currentUrl)
         currentUrl |-> cur]

\* mutant of ClearSteps: the current URL is invalidated afterwards, as for click
ClearStepsInvalidating(action, s, snap, cur) ==
    LET pre == SnapshotFirst(s, snap, cur, "Snapshot before clear (auto-inserted)")
        n   == s + Len(pre)
    IN  [steps |-> pre \o
           << [seq |-> Whole(n), mcp_tool |-> "browser_fill_form",
               args_template |-> [fields |-> << [element |-> selectorToDescription(action.selector),
                                                  ref |-> RefPlaceholder,
                                                  value |-> <<>>] >>],
               selector_hint |-> action.selector,
               original_action |-> action,
               note |-> <<"Clear ", action.selector>>,
               locator_status |-> "pending"] >>,
         nextSeq |-> n + 1,
         snapshotted |-> snap \ {cur},
         currentUrl |-> cur]

\* case "clear"
ClearSteps(action, s, snap, cur) ==
    LET pre == SnapshotFirst(s, snap, cur, "Snapshot before clear (auto-inserted)")
        n   == s + Len(pre)
    IN  [steps |-> pre \o
           << [seq |-> Whole(n), mcp_tool |-> "browser_fill_form",
               args_template |-> [fields |-> << [element |-> selectorToDescription(action.selector),
                                                  ref |-> RefPlaceholder,
                                                  value |-> <<>>] >>],
               selector_hint |-> action.selector,
               original_action |-> action,
               note |-> <<"Clear ", action.selector>>,
               locator_status |-> "pending"] >>,
         nextSeq |-> n + 1,
         snapshotted |-> snap \cup {cur},
         currentUrl |-> cur]

WaitTime == 2000

\* mutant of WaitSteps: the current URL stays snapshot-fresh
WaitStepsKeeping(action, s, snap, cur) ==
    [steps |-> << [seq |-> Whole(s), mcp_tool |-> "browser_wait_for",
                   args |-> [time |-> WaitTime],
                   note |-> <<"Wait for ", action.selector>>,
                   selector_hint |-> action.selector,
                   original_action |-> action] >>,
     nextSeq |-> s + 1,
     snapshotted |-> snap,
     currentUrl |-> cur]

\* case "wait"
WaitSteps(action, s, snap, cur) ==
    [steps |-> << [seq |-> Whole(s), mcp_tool |-> "browser_wait_for",
                   args |-> [time |-> WaitTime],
                   note |-> <<"Wait for ", action.selector>>,
                   selector_hint |-> action.selector,
                   original_action |-> action] >>,
     nextSeq |-> s + 1,
     snapshotted |-> snap \ {cur},              \* snapshotted.delete(currentUrl)
     currentUrl |-> cur]

AssertTextSteps(action, s, snap, cur) ==
    [steps |-> << [seq |-> Whole(s), mcp_tool |-> "browser_verify_text_visible",
                   args |-> [text |-> action.expected],
                   note |-> <<"Assert text visible: ", action.expected>>,
                   original_action |-> action,
                   locator_status |-> "pending"] >>,
     nextSeq |-> s + 1,
     snapshotted |-> snap,
     currentUrl |-> cur]

GetTextSteps(action, s, snap, cur) ==
    LET pre == SnapshotFirst(s, snap, cur, "Snapshot to read text content (auto-inserted)")
        n   == s + Len(pre)
    IN  [steps |-> pre \o
           << [seq |-> Whole(n), mcp_tool |-> "browser_snapshot",
               args |-> <<>>,
               note |-> <<"Read text from ", action.selector>>,
               selector_hint |-> action.selector,
               original_action |-> action] >>,
         nextSeq |-> n + 1,
         snapshotted |-> snap \cup {cur},
         currentUrl |-> cur]

AssertBoolSteps(action, s, snap, cur) ==
    [steps |-> << [seq |-> Whole(s), mcp_tool |-> "browser_evaluate",
                   args |-> [function |-> <<"() => !!(">> \o action.expression \o <<")">>],
                   note |-> <<action.type, action.expression>>,
                   original_action |-> action] >>,
     nextSeq |-> s + 1,
     snapshotted |-> snap,
     currentUrl |-> cur]

CountElementsSteps(action, s, snap, cur) ==
    [steps |-> << [seq |-> Whole(s), mcp_tool |-> "browser_evaluate",
                   args |-> [function |-> <<"() => document.querySelectorAll('">>
                                           \o action.selector \o <<"').length">>],
                   note |-> <<"Count elements matching ", action.selector>>,
                   selector_hint |-> action.selector,
                   original_action |-> action] >>,
     nextSeq |-> s + 1,
     snapshotted |-> snap,
     currentUrl |-> cur]

\* mutant of UnknownSteps: an unknown action is dropped without a step
UnknownStepsSilent(action, s, snap, cur) ==
    [steps |-> <<>>, nextSeq |-> s, snapshotted |-> snap, currentUrl |-> cur]

UnknownSteps(action, s, snap, cur) ==
    [steps |-> << [seq |-> Whole(s), mcp_tool |-> "/* unknown */",
                   note |-> <<"Unhandled action type: ", action.type>>,
                   original_action |-> action,
                   skipped |-> TRUE] >>,
     nextSeq |-> s + 1,
     snapshotted |-> snap,
     currentUrl |-> cur]

actionToSteps(action, s, snap, cur, base) ==
    CASE action.type = "navigate"       -> NavigateSteps(action, s, snap, cur, base)
      [] action.type = "fill"           -> FillSteps(action, s, snap, cur)
      [] action.type = "click"          -> ClickSteps(action, s, snap, cur)
      [] action.type = "clear"          -> ClearSteps(action, s, snap, cur)
      [] action.type = "wait"           -> WaitSteps(action, s, snap, cur)
      [] action.type = "assert_text"    -> AssertTextSteps(action, s, snap, cur)
      [] action.type = "get_text"       -> GetTextSteps(action, s, snap, cur)
      [] action.type \in {"assert_true", "assert_false"}
                                        -> AssertBoolSteps(action, s, snap, cur)
      [] action.type = "count_elements" -> CountElementsSteps(action, s, snap, cur)
      [] OTHER                          -> UnknownSteps(action, s, snap, cur)

----------------------------------------------------------------------------
(* The callback of testMethods.map (playwright-bridge.mjs): one method.    *)

CompileIdle ==
    /\ baseUrl = <<>>
    /\ actions = <<>>
    /\ idx = 0
    /\ seq = 1
    /\ snapshotted = {}
    /\ currentUrl = <<>>
    /\ playwrightSteps = <<>>
    /\ pc = "idle"

SplitIdle ==
    /\ lastIndex = 0
    /\ methods = <<>>
    /\ spans = <<>>
    /\ spc = "idle"

NoMarks ==
    [publicClass |-> FALSE, junitImport |-> FALSE, testCount |-> 0, beforeEach |-> FALSE,
     afterEach |-> FALSE, webDriver |-> FALSE, webDriverWait |-> FALSE,
     threadSleep |-> FALSE, dummyAssert |-> FALSE, emptyMethods |-> 0]

NoInjection == [at |-> -1, brace |-> ""]

NoResult == [valid |-> FALSE, testCount |-> 0, errors |-> <<>>, warnings |-> <<>>]

SyntaxIdle ==
    /\ marks = NoMarks
    /\ injected = NoInjection
    /\ result = NoResult
    /\ vpc = "idle"

ExtractIdle ==
    /\ byExpr = <<>>
    /\ normalized = <<>>
    /\ description = <<>>
    /\ lpc = "idle"
    /\ body = <<>>
    /\ extracted = <<>>
    /\ epc = "idle"

NoValue == [kind |-> "none"]

ToolIdle ==
    /\ tool = NoValue
    /\ world = NoValue
    /\ handled = NoValue
    /\ response = NoValue
    /\ tpc = "idle"

\* const snapshotted = new Set(); let seq = 1; let currentUrl = ""; const playwrightSteps = []
InitCompile ==
    /\ code = <<>>
    /\ SplitIdle
    /\ SyntaxIdle
    /\ ExtractIdle
    /\ ToolIdle
    /\ baseUrl \in BaseUrls
    /\ actions \in ActionLists
    /\ idx = 0
    /\ seq = 1
    /\ snapshotted = {}
    /\ currentUrl = <<>>
    /\ playwrightSteps = <<>>
    /\ pc = "loop"

\* one iteration of  for (const action of method.actions)
CompileAction ==
    /\ pc = "loop"
    /\ idx < Len(actions)
    /\ LET r == actionToSteps(actions[idx + 1], seq, snapshotted, currentUrl, baseUrl)
       IN  /\ playwrightSteps' = playwrightSteps \o r.steps
           /\ seq' = r.nextSeq
           /\ currentUrl' = r.currentUrl
           /\ snapshotted' = r.snapshotted
    /\ idx' = idx + 1
    /\ UNCHANGED <<baseUrl, actions, pc>>
    /\ UNCHANGED <<code, splitVars, syntaxVars, extractVars, toolVars>>

\* the for-of loop is exhausted
LoopEnd ==
    /\ pc = "loop"
    /\ idx = Len(actions)
    /\ pc' = "post"
    /\ UNCHANGED <<baseUrl, actions, idx, seq, snapshotted, currentUrl, playwrightSteps>>
    /\ UNCHANGED <<code, splitVars, syntaxVars, extractVars, toolVars>>

\* mutant of hasNavigate: every action list counts as having a navigate action
hasNavigateAlways(as) == TRUE

\* const hasNavigate = method.actions.some((a) => a.type === "navigate")
hasNavigate(as) == \E i \in 1..Len(as) : as[i].type = "navigate"

\* mutant of Unshift: only the navigation step is prepended
UnshiftNavigateOnly(steps, base) ==
    << [seq |-> Tenths(1), mcp_tool |-> "browser_navigate", args |-> [url |-> base],
        note |-> <<"Auto-inserted: Navigate to base URL (no explicit navigate in Selenium code)">>] >>
    \o steps

\* playwrightSteps.unshift({seq: 0.1, browser_navigate ...}, {seq: 0.2, browser_snapshot ...})
Unshift(steps, base) ==
    << [seq |-> Tenths(1), mcp_tool |-> "browser_navigate", args |-> [url |-> base],
        note |-> <<"Auto-inserted: Navigate to base URL (no explicit navigate in Selenium code)">>],
       [seq |-> Tenths(2), mcp_tool |-> "browser_snapshot", args |-> <<>>,
        note |-> <<"Auto-inserted: Initial snapshot">>,
        snapshot_marker |-> TRUE] >> \o steps

\* mutant of Renumber: the renumbering is left out
RenumberNone(steps) == steps

\* playwrightSteps.forEach((s, i) => (s.seq = i + 1))
Renumber(steps) == [i \in 1..Len(steps) |-> [steps[i] EXCEPT !.seq = Whole(i)]]

\* mutant of NeedsBootstrap: the hasNavigate test is left out
NeedsBootstrapAnyway(as) == Len(as) > 0

\* if (!hasNavigate && method.actions.length > 0) { unshift; renumber }
NeedsBootstrap(as) == ~hasNavigate(as) /\ Len(as) > 0

PostPass ==
    /\ pc = "post"
    /\ playwrightSteps' = IF NeedsBootstrap(actions)
                            THEN Renumber(Unshift(playwrightSteps, baseUrl))
                            ELSE playwrightSteps
    /\ pc' = "done"
    /\ UNCHANGED <<baseUrl, actions, idx, seq, snapshotted, currentUrl>>
    /\ UNCHANGED <<code, splitVars, syntaxVars, extractVars, toolVars>>

NextCompile ==
    \/ CompileAction
    \/ LoopEnd
    \/ PostPass

Spec == InitCompile /\ [][NextCompile]_vars

----------------------------------------------------------------------------
(* Claims about the Plan Compiler, checked under Spec.                     *)

Has(step, field) == field \in DOMAIN step

IsPrimary(step) == Has(step, "original_action")

IsAutoSnapshot(step) ==
    /\ step.mcp_tool = "browser_snapshot"
    /\ Has(step, "snapshot_marker")
    /\ ~Has(step, "original_action")

Tools(steps) == [i \in 1..Len(steps) |-> steps[i].mcp_tool]

Types(as) == [i \in 1..Len(as) |-> as[i].type]

DenseSeq(steps) == \A i \in 1..Len(steps) : steps[i].seq = Whole(i)

\* the steps appended to playwrightSteps by the step being taken
Appended == SubSeq(playwrightSteps', Len(playwrightSteps) + 1, Len(playwrightSteps'))

\* C1: in the final playwright_steps list of a method the seq values are
\* exactly 1, 2, ..., n in list order, with and without the prepended
\* navigate+snapshot pair.
C1_SeqDense == pc = "done" => DenseSeq(playwrightSteps)

C1_Witness ==
    /\ pc = "done"
    /\ NeedsBootstrap(actions)
    /\ Len(playwrightSteps) >= 4

SnapshotTypes == {"click", "fill", "clear", "get_text"}

\* what one iteration of the loop appends, for the action it compiles
C2_Iteration ==
    (pc = "loop" /\ idx' = idx + 1) =>
      LET a == actions[idx + 1]
          new == Appended
      IN  IF a.type \in SnapshotTypes /\ currentUrl \notin snapshotted
            THEN /\ Len(new) = 2
                 /\ IsAutoSnapshot(new[1])
                 /\ IsPrimary(new[2]) /\ new[2].original_action = a
          ELSE IF a.type = "navigate"
            THEN /\ Len(new) = 2
                 /\ new[1].mcp_tool = "browser_navigate"
                 /\ new[2].mcp_tool = "browser_snapshot"
          ELSE   /\ Len(new) = 1
                 /\ ~IsAutoSnapshot(new[1])
                 /\ IsPrimary(new[1]) /\ new[1].original_action = a

C2_Example ==
    (pc = "post" /\ pc' = "done" /\ Types(actions) = <<"navigate", "fill", "click">>) =>
      /\ Tools(playwrightSteps') = <<"browser_navigate", "browser_snapshot",
                                     "browser_fill_form", "browser_click">>
      /\ DenseSeq(playwrightSteps')

\* C2: a snapshot step is auto-inserted immediately before an action's primary
\* step exactly when the action is click, fill, clear or get_text and the
\* current URL is not snapshot-fresh; otherwise none is inserted; and
\* [navigate, fill, click] compiles to navigate, snapshot, fill, click with
\* seq 1..4.
C2_SnapshotInsertion == [][C2_Iteration /\ C2_Example]_vars

C2_Witness ==
    /\ pc = "done"
    /\ hasNavigate(actions)
    /\ \E i \in 2..Len(playwrightSteps) :
         /\ playwrightSteps[i].mcp_tool = "browser_snapshot"
         /\ playwrightSteps[i].note = <<"Snapshot before click (auto-inserted)">>
         /\ playwrightSteps[i - 1].mcp_tool = "browser_click"

SameButSeq(a, b) == [a EXCEPT !.seq = Whole(0)] = [b EXCEPT !.seq = Whole(0)]

C3_PostPass ==
    (pc = "post" /\ pc' = "done") =>
      IF Len(actions) > 0 /\ \A i \in 1..Len(actions) : actions[i].type # "navigate"
        THEN /\ Len(playwrightSteps') = Len(playwrightSteps) + 2
             /\ playwrightSteps'[1].mcp_tool = "browser_navigate"
             /\ playwrightSteps'[1].args.url = baseUrl
             /\ playwrightSteps'[2].mcp_tool = "browser_snapshot"
             /\ IsAutoSnapshot(playwrightSteps'[2])
             /\ \A i \in 1..Len(playwrightSteps) :
                  SameButSeq(playwrightSteps'[i + 2], playwrightSteps[i])
        ELSE /\ playwrightSteps' = playwrightSteps
             /\ (Len(actions) = 0 => playwrightSteps' = <<>>)

C4_SingleClick ==
    (pc = "done" /\ Types(actions) = <<"click">>) =>
      /\ Tools(playwrightSteps) = <<"browser_navigate", "browser_snapshot",
                                    "browser_snapshot", "browser_click">>
      /\ playwrightSteps[1].args.url = baseUrl
      /\ IsAutoSnapshot(playwrightSteps[2])
      /\ IsAutoSnapshot(playwrightSteps[3])
      /\ playwrightSteps[4].original_action = actions[1]
      /\ DenseSeq(playwrightSteps)

C4_Witness ==
    /\ pc = "done"
    /\ Types(actions) = <<"click">>
    /\ Len(playwrightSteps) = 4

\* the steps that stand for an input action: those carrying original_action,
\* and the navigation steps the loop emitted
LoweredNavigate(step) ==
    /\ step.mcp_tool = "browser_navigate"
    /\ step.note[1] = "Navigate to "

StandsForAction(step) == IsPrimary(step) \/ LoweredNavigate(step)

\* the input action a step stands for (a navigate by its resolved URL)
ActionOf(step) ==
    IF IsPrimary(step) THEN step.original_action
    ELSE [type |-> "navigate", url |-> step.args.url]

Resolved(a, base) ==
    IF a.type = "navigate" /\ StartsWith(a.url, <<"{", "{">>)
      THEN [a EXCEPT !.url = base] ELSE a

ActionTrace(steps) ==
    LET kept == SelectSeq(steps, StandsForAction)
    IN  [i \in 1..Len(kept) |-> ActionOf(kept[i])]

UnknownAt(as) == { i \in 1..Len(as) : as[i].type \notin KnownTypes }

SkippedAt(steps) == { i \in 1..Len(steps) : Has(steps[i], "skipped") /\ steps[i].skipped }

\* C5: with one action of a type outside the ten known types, the plan holds
\* exactly one skipped step, carrying that action, and the steps of the
\* other actions are all there, in the order of the input list, before and
\* after it.
C5_UnknownSkipped ==
    (pc = "done" /\ Cardinality(UnknownAt(actions)) = 1) =>
      /\ Cardinality(SkippedAt(playwrightSteps)) = 1
      /\ \A i \in SkippedAt(playwrightSteps) : \A u \in UnknownAt(actions) :
           /\ IsPrimary(playwrightSteps[i])
           /\ playwrightSteps[i].original_action = actions[u]
      /\ ActionTrace(playwrightSteps)
           = [i \in 1..Len(actions) |-> Resolved(actions[i], baseUrl)]

C5_Witness ==
    /\ pc = "done"
    /\ Len(actions) = 3
    /\ UnknownAt(actions) = {2}
    /\ Cardinality(SkippedAt(playwrightSteps)) = 1

\* the element description and the ref placeholder of a step's args_template
Target(step) ==
    IF Has(step.args_template, "fields") THEN step.args_template.fields[1]
    ELSE step.args_template

CarriesLocator(step) ==
    /\ Has(step, "locator_status") /\ step.locator_status = "pending"
    /\ Has(step, "args_template")
    /\ Target(step).element = selectorToDescription(step.original_action.selector)
    /\ Target(step).ref = RefPlaceholder

PrimaryOfType(step, types) == IsPrimary(step) /\ step.original_action.type \in types

\* C6 as stated: the primary step of every click, fill, clear and get_text
\* action carries locator_status "pending", a selector description, a ref
\* placeholder and the original action.
C6_Original ==
    \A i \in 1..Len(playwrightSteps) :
      PrimaryOfType(playwrightSteps[i], SnapshotTypes) => CarriesLocator(playwrightSteps[i])

\* C6 amended: the primary step of every click, fill and clear action carries
\* locator_status "pending", a selector description, a ref placeholder and
\* the original action; the primary step of a get_text action is a
\* browser_snapshot step carrying the selector hint and the original action,
\* and neither a locator_status nor a ref placeholder.
C6_Amended ==
    \A i \in 1..Len(playwrightSteps) :
      LET step == playwrightSteps[i]
      IN  /\ PrimaryOfType(step, {"click", "fill", "clear"}) => CarriesLocator(step)
          /\ PrimaryOfType(step, {"get_text"}) =>
               /\ step.mcp_tool = "browser_snapshot"
               /\ step.selector_hint = step.original_action.selector
               /\ ~Has(step, "locator_status")
               /\ ~Has(step, "args_template")

C6_Witness ==
    /\ pc = "done"
    /\ \E i, j \in 1..Len(playwrightSteps) :
         /\ PrimaryOfType(playwrightSteps[i], {"get_text"})
         /\ PrimaryOfType(playwrightSteps[j], {"click"})

----------------------------------------------------------------------------
(* splitTestMethods (extract-actions.mjs).                                 *)
(*                                                                         *)
(* The source text is a sequence of characters.  The character "H" stands  *)
(* for the text  @Test void m()  , that is for what the regular expression *)
(*   /@Test[\s\S]*?(?:public\s+)?void\s+(\w+)\s*\([^)]*\)\s*\{/g           *)
(* matches up to its closing parenthesis; every other character is         *)
(* itself.  Indices are 0-based as in the source: At(text, i) is text[i].  *)

MaxCodeLen == 6

SplitChars == { "H", "{", "}", Quote, "'", "/", "*", "\n", "\\" }

SplitTexts == UNION { [1..n -> SplitChars] : n \in 0..MaxCodeLen }

At(text, i) == text[i + 1]

\* String.prototype.slice(from, to) with 0 <= from <= to <= length
Slice(text, from, to) == SubSeq(text, from + 1, to)

\* \s*\{ : the index of the "{" that follows position i after white space, or -1
RECURSIVE BraceAfter(_, _)
BraceAfter(text, i) ==
    IF i >= Len(text) THEN -1
    ELSE IF At(text, i) = "\n" THEN BraceAfter(text, i + 1)
    ELSE IF At(text, i) = "{" THEN i
    ELSE -1

\* testMethodRe.exec(code) from lastIndex: the index of the matched "{", or -1.
\* The lazy [\s\S]*? runs from the first @Test to the first signature that is
\* followed by "{", so the match ends at the first header followed by "{".
ExecTestMethodRe(text, from) ==
    LET hits == { h \in from..(Len(text) - 1) :
                    At(text, h) = "H" /\ BraceAfter(text, h + 1) # -1 }
    IN  IF hits = {} THEN -1
        ELSE BraceAfter(text, (CHOOSE h \in hits : \A g \in hits : h <= g) + 1)

\* while (i < code.length && depth > 0)
ScanGuard(text, i, depth) == i < Len(text) /\ depth > 0

\* the while loop that looks for the matching "}": the value of i when it ends
\*   if (code[i] === "{") depth++; if (code[i] === "}") depth--; i++;
RECURSIVE MatchBrace(_, _, _)
MatchBrace(text, i, depth) ==
    IF ScanGuard(text, i, depth)
      THEN MatchBrace(text, i + 1,
                      IF At(text, i) = "{" THEN depth + 1
                      ELSE IF At(text, i) = "}" THEN depth - 1
                      ELSE depth)
      ELSE i

InitSplit ==
    /\ code \in SplitTexts
    /\ lastIndex = 0
    /\ methods = <<>>
    /\ spans = <<>>
    /\ spc = "scan"
    /\ CompileIdle
    /\ SyntaxIdle
    /\ ExtractIdle
    /\ ToolIdle

\* one iteration of  while ((match = testMethodRe.exec(code)) !== null)
SplitMatch ==
    /\ spc = "scan"
    /\ ExecTestMethodRe(code, lastIndex) # -1
    /\ LET startBrace == ExecTestMethodRe(code, lastIndex)
           i == MatchBrace(code, startBrace + 1, 1)
       IN  /\ methods' = Append(methods, [name |-> "m", body |-> Slice(code, startBrace, i)])
           /\ spans' = Append(spans, [startBrace |-> startBrace, i |-> i])
           /\ lastIndex' = startBrace + 1
    /\ UNCHANGED <<code, spc, compileVars, syntaxVars, extractVars, toolVars>>

\* exec returns null: return methods
SplitReturn ==
    /\ spc = "scan"
    /\ ExecTestMethodRe(code, lastIndex) = -1
    /\ spc' = "done"
    /\ UNCHANGED <<code, lastIndex, methods, spans, compileVars, syntaxVars,
                   extractVars, toolVars>>

NextSplit ==
    \/ SplitMatch
    \/ SplitReturn

SpecSplit == InitSplit /\ [][NextSplit]_vars

----------------------------------------------------------------------------
(* Claims about the Method Segmenter, checked under SpecSplit.             *)
(*                                                                         *)
(* The brace discipline the claims name: a brace counts unless it lies in  *)
(* a string literal, a character literal, a // comment or a /* */ comment. *)
(* Modes: "code", "str", "chr", "line", "block".                           *)

NextChar(text, i) == IF i + 1 < Len(text) THEN At(text, i + 1) ELSE ""

\* the mode after the character at i, read in mode m
ModeAfter(text, i, m) ==
    LET c == At(text, i)
        n == NextChar(text, i)
    IN  CASE m = "code"  -> IF c = "/" /\ n = "/" THEN "line"
                            ELSE IF c = "/" /\ n = "*" THEN "block"
                            ELSE IF c = Quote THEN "str"
                            ELSE IF c = "'" THEN "chr"
                            ELSE "code"
          [] m = "str"   -> IF c = Quote THEN "code" ELSE "str"
          [] m = "chr"   -> IF c = "'" THEN "code" ELSE "chr"
          [] m = "line"  -> IF c = "\n" THEN "code" ELSE "line"
          [] m = "block" -> IF c = "*" /\ n = "/" THEN "code" ELSE "block"

\* the characters consumed at i in mode m: two for a comment opener or closer
\* and for an escape inside a literal
Width(text, i, m) ==
    LET c == At(text, i)
        n == NextChar(text, i)
    IN  IF \/ m = "code" /\ c = "/" /\ n \in {"/", "*"}
           \/ m \in {"str", "chr"} /\ c = "\\"
           \/ m = "block" /\ c = "*" /\ n = "/"
          THEN 2 ELSE 1

BraceDelta(text, i, m) ==
    IF m # "code" THEN 0
    ELSE IF At(text, i) = "{" THEN 1
    ELSE IF At(text, i) = "}" THEN -1
    ELSE 0

\* the index of the "}" that brings the depth to zero, scanning from i, or -1
RECURSIVE AwareClose(_, _, _, _)
AwareClose(text, i, depth, m) ==
    IF i >= Len(text) THEN -1
    ELSE LET d == depth + BraceDelta(text, i, m)
             escaped == m \in {"str", "chr"} /\ At(text, i) = "\\"
         IN  IF d = 0 THEN i
             ELSE AwareClose(text, i + Width(text, i, m), d,
                             IF escaped THEN m ELSE ModeAfter(text, i, m))

\* <<depth at the end of the text, lowest depth met, mode at the end>> scanning from i
RECURSIVE AwareDepths(_, _, _, _, _)
AwareDepths(text, i, depth, low, m) ==
    IF i >= Len(text) THEN <<depth, low, m>>
    ELSE LET d == depth + BraceDelta(text, i, m)
             escaped == m \in {"str", "chr"} /\ At(text, i) = "\\"
         IN  AwareDepths(text, i + Width(text, i, m), d,
                         IF d < low THEN d ELSE low,
                         IF escaped THEN m ELSE ModeAfter(text, i, m))

\* braces balanced, and every literal and block comment closed
AwareBalanced(text) ==
    LET r == AwareDepths(text, 0, 0, 0, "code")
    IN  r[1] = 0 /\ r[2] = 0 /\ r[3] \in {"code", "line"}

\* the mode in which the character at pos is read, scanning from i in mode m
RECURSIVE AwareModeAt(_, _, _, _)
AwareModeAt(text, i, m, pos) ==
    IF i >= pos \/ i >= Len(text) THEN m
    ELSE LET escaped == m \in {"str", "chr"} /\ At(text, i) = "\\"
         IN  AwareModeAt(text, i + Width(text, i, m),
                         IF escaped THEN m ELSE ModeAfter(text, i, m), pos)

\* every method found opens in code, not inside a literal or a comment
MethodsInCode == \A k \in 1..Len(spans) : AwareModeAt(code, 0, "code", spans[k].startBrace) = "code"

\* the matching closing brace of the method pushed k-th, or -1
ClosingBrace(k) == AwareClose(code, spans[k].startBrace + 1, 1, "code")

\* C7: the body of every method found is the substring from the opening
\* brace to its matching closing brace inclusive, where braces inside string
\* literals, character literals and comments do not count.
C7_BodyIsMatchedBlock ==
    spc = "done" =>
      \A k \in 1..Len(methods) :
        ClosingBrace(k) # -1 =>
          methods[k].body = Slice(code, spans[k].startBrace, ClosingBrace(k) + 1)

\* C8: for a text whose braces are balanced (outside strings and comments)
\* the spans of the segments, in order, do not overlap and the brace depth
\* of each segment is zero at its end.
C8_DisjointBalancedSegments ==
    (spc = "done" /\ AwareBalanced(code) /\ MethodsInCode) =>
      /\ \A j, k \in 1..Len(spans) : j < k => spans[j].i <= spans[k].startBrace
      /\ \A k \in 1..Len(methods) :
           AwareDepths(methods[k].body, 0, 0, 0, "code")[1] = 0

\* C9: for a method whose opening brace is never closed the scan stays
\* within the text and the segment runs from the opening brace to the end
\* of the text.
C9_UnterminatedRunsToEnd ==
    spc = "done" =>
      \A k \in 1..Len(methods) :
        /\ spans[k].i <= Len(code)
        /\ ClosingBrace(k) = -1 =>
             /\ spans[k].i = Len(code)
             /\ methods[k].body = Slice(code, spans[k].startBrace, Len(code))

----------------------------------------------------------------------------
(* validateSyntax (validate-syntax.mjs).                                   *)
(*                                                                         *)
(* The text is held as the characters the brace scan distinguishes; what   *)
(* the other checks look for in it (regular-expression tests, includes())  *)
(* is held in `marks`, one field per test.  A brace put between those      *)
(* keywords changes none of them; a brace put inside one can only make its *)
(* test fail, which adds an error.                                         *)

MaxSrcLen == 4

SyntaxChars == { "{", "}", Quote, "/", "*", "\n", "\\" }

SyntaxTexts == UNION { [1..n -> SyntaxChars] : n \in 0..MaxSrcLen }

\* a text that passes every check but the brace balance
GoodMarks ==
    [publicClass |-> TRUE, junitImport |-> TRUE, testCount |-> 3, beforeEach |-> TRUE,
     afterEach |-> TRUE, webDriver |-> TRUE, webDriverWait |-> TRUE,
     threadSleep |-> FALSE, dummyAssert |-> FALSE, emptyMethods |-> 0]

ScanMarks == { GoodMarks, [GoodMarks EXCEPT !.afterEach = FALSE] }

\* let depth = 0; let inString = false; let inLineComment = false; let inBlockComment = false
ScanStart ==
    [i |-> 0, depth |-> 0, inString |-> FALSE, inLineComment |-> FALSE,
     inBlockComment |-> FALSE]

\* one iteration of  for (let i = 0; i < code.length; i++), the i++ included
ScanStep(text, st) ==
    LET ch   == At(text, st.i)
        next == IF st.i + 1 < Len(text) THEN At(text, st.i + 1) ELSE ""   \* undefined
        skip == [st EXCEPT !.i = st.i + 1]                                \* continue
    IN  IF st.inLineComment
          THEN IF ch = "\n" THEN [skip EXCEPT !.inLineComment = FALSE] ELSE skip
        ELSE IF st.inBlockComment
          THEN IF ch = "*" /\ next = "/"
                 THEN [st EXCEPT !.inBlockComment = FALSE, !.i = st.i + 2]
                 ELSE skip
        ELSE IF st.inString
          THEN IF ch = "\\" THEN [st EXCEPT !.i = st.i + 2]
               ELSE IF ch = Quote THEN [skip EXCEPT !.inString = FALSE]
               ELSE skip
        ELSE IF ch = "/" /\ next = "/" THEN [skip EXCEPT !.inLineComment = TRUE]
        ELSE IF ch = "/" /\ next = "*" THEN [skip EXCEPT !.inBlockComment = TRUE]
        ELSE IF ch = Quote THEN [skip EXCEPT !.inString = TRUE]
        ELSE IF ch = "{" THEN [skip EXCEPT !.depth = st.depth + 1]
        ELSE IF ch = "}" THEN [skip EXCEPT !.depth = st.depth - 1]
        ELSE skip

\* the scan from state st until i reaches `stop` (code.length for the whole loop)
RECURSIVE BraceScan(_, _, _)
BraceScan(text, st, stop) ==
    IF st.i < stop /\ st.i < Len(text) THEN BraceScan(text, ScanStep(text, st), stop) ELSE st

MinTests == 3

When(cond, entry) == IF cond THEN <<entry>> ELSE <<>>

\* mutant of Unbalanced: only unclosed opening braces are reported
UnbalancedOpenOnly(depth) == depth > 0

\* if (depth !== 0)
Unbalanced(depth) == depth # 0

\* if (testCount === 0)
NoTests(testCount) == testCount = 0

\* mutant of TooFewTests: a count equal to the minimum is warned about too
TooFewTestsInclusive(testCount) == testCount # 0 /\ testCount <= MinTests

\* else if (testCount < 3)
TooFewTests(testCount) == testCount # 0 /\ testCount < MinTests

validateSyntax(text, m) ==
    LET depth == BraceScan(text, ScanStart, Len(text)).depth
        errors ==
          When(Unbalanced(depth), <<"Unbalanced braces: depth=", depth>>)
          \o When(~m.publicClass, <<"Missing: public class declaration">>)
          \o When(~m.junitImport, <<"Missing import: org.junit.jupiter.api.Test">>)
          \o When(NoTests(m.testCount), <<"No @Test methods found">>)
          \o When(~m.beforeEach, <<"Missing @BeforeEach (WebDriver initialization)">>)
          \o When(~m.afterEach, <<"Missing @AfterEach (WebDriver teardown)">>)
          \o When(~m.webDriver, <<"Missing: WebDriver (Selenium not used)">>)
        warnings ==
          When(TooFewTests(m.testCount), <<"@Test count is ", m.testCount>>)
          \o When(~m.webDriverWait, <<"WebDriverWait not found">>)
          \o When(m.threadSleep, <<"Thread.sleep detected">>)
          \o When(m.dummyAssert, <<"assertTrue(true) found">>)
          \o When(m.emptyMethods > 0, <<"empty @Test method(s) found: ", m.emptyMethods>>)
    IN  [valid |-> Len(errors) = 0, testCount |-> m.testCount,
         errors |-> errors, warnings |-> warnings]

\* the text with character c put in front of position at (0-based)
InsertAt(text, at, c) == SubSeq(text, 1, at) \o <<c>> \o SubSeq(text, at + 1, Len(text))

\* the text without the character at position at (0-based)
RemoveAt(text, at) == SubSeq(text, 1, at) \o SubSeq(text, at + 2, Len(text))

InitSyntax ==
    /\ code \in SyntaxTexts
    /\ marks \in ScanMarks
    /\ injected = NoInjection
    /\ result = NoResult
    /\ vpc = "call"
    /\ CompileIdle
    /\ SplitIdle
    /\ ExtractIdle
    /\ ToolIdle

\* the caller hands over a text into which one extra brace was put
InjectBrace ==
    /\ vpc = "call"
    /\ injected = NoInjection
    /\ \E at \in 0..Len(code), b \in {"{", "}"} :
         /\ code' = InsertAt(code, at, b)
         /\ injected' = [at |-> at, brace |-> b]
    /\ UNCHANGED <<marks, result, vpc, compileVars, splitVars, extractVars, toolVars>>

\* validateSyntax(code)
Validate ==
    /\ vpc = "call"
    /\ result' = validateSyntax(code, marks)
    /\ vpc' = "done"
    /\ UNCHANGED <<code, marks, injected, compileVars, splitVars, extractVars, toolVars>>

NextSyntax ==
    \/ InjectBrace
    \/ Validate

SpecSyntax == InitSyntax /\ [][NextSyntax]_vars

----------------------------------------------------------------------------
(* Claims about the Syntax Well-formedness Checker, checked under          *)
(* SpecSyntax.                                                             *)

\* the text before the brace was put in
Original == RemoveAt(code, injected.at)

\* the braces of the text are balanced, whatever surrounds them
RECURSIVE RawDepths(_, _, _, _)
RawDepths(text, i, depth, low) ==
    IF i >= Len(text) THEN <<depth, low>>
    ELSE LET d == depth + BraceDelta(text, i, "code")
         IN  RawDepths(text, i + 1, d, IF d < low THEN d ELSE low)

RawBalanced(text) == RawDepths(text, 0, 0, 0) = <<0, 0>>

Rejected == Len(result.errors) > 0 /\ result.valid = FALSE

ReadAsCode(text, at) ==
    LET st == BraceScan(text, ScanStart, at)
    IN  st.i = at /\ ~st.inString /\ ~st.inLineComment /\ ~st.inBlockComment

\* the braces validateSyntax counts (those outside strings and comments) are
\* as many opening as closing
CountedBalanced(text) == BraceScan(text, ScanStart, Len(text)).depth = 0

StrayClose(text) ==
    \E j \in 0..Len(text) : BraceScan(text, ScanStart, j).depth < 0

\* the scan of validateSyntax reaches the end of the text inside a string literal
OpenString(text) == BraceScan(text, ScanStart, Len(text)).inString

\* the scan of validateSyntax reaches the end of the text inside a /* comment
OpenBlockComment(text) == BraceScan(text, ScanStart, Len(text)).inBlockComment

\* the entry validateSyntax pushes for the structure of the text
HasStructuralError(r) ==
    \E e \in 1..Len(r.errors) : r.errors[e][1] = "Unbalanced braces: depth="

HasError(r, entry) == \E e \in 1..Len(r.errors) : r.errors[e] = entry

\* C11: whenever the text has a closing brace with no earlier unmatched
\* opening brace, a string literal not terminated before the end of the text,
\* or a block comment not terminated before the end of the text,
\* validateSyntax adds a structural errors entry and returns valid = false,
\* and the other checks are still reported in the same result.
C11_StructuralError ==
    (vpc = "done" /\ (StrayClose(code) \/ OpenString(code) \/ OpenBlockComment(code)))
      => /\ HasStructuralError(result)
         /\ result.valid = FALSE
         /\ ~marks.afterEach => HasError(result, <<"Missing @AfterEach (WebDriver teardown)">>)

----------------------------------------------------------------------------
(* validateSyntax over every outcome of its tests on the text, checked     *)
(* under SpecChecks.  includes("WebDriverWait") implies                    *)
(* includes("WebDriver"), and every empty @Test method is an @Test.        *)

MaxTests == 4

AllMarks ==
    { m \in [publicClass : BOOLEAN, junitImport : BOOLEAN, testCount : 0..MaxTests,
             beforeEach : BOOLEAN, afterEach : BOOLEAN, webDriver : BOOLEAN,
             webDriverWait : BOOLEAN, threadSleep : BOOLEAN, dummyAssert : BOOLEAN,
             emptyMethods : 0..1] :
        /\ m.webDriverWait => m.webDriver
        /\ m.emptyMethods <= m.testCount }

\* texts whose braces are balanced, unclosed, and closed inside a string
CheckTexts == { <<"{", "}">>, <<"{">>, <<Quote, "}", Quote>> }

InitChecks ==
    /\ code \in CheckTexts
    /\ marks \in AllMarks
    /\ injected = NoInjection
    /\ result = NoResult
    /\ vpc = "call"
    /\ CompileIdle
    /\ SplitIdle
    /\ ExtractIdle
    /\ ToolIdle

SpecChecks == InitChecks /\ [][NextSyntax]_vars

HasWarning(r, entry) == \E w \in 1..Len(r.warnings) : r.warnings[w] = entry

TestCountWarned(r) ==
    \E w \in 1..Len(r.warnings) : r.warnings[w][1] = "@Test count is "

\* the same outcomes with nothing left that a warning is given for
Unwarned(m) ==
    [m EXCEPT !.testCount = IF m.testCount \in 1..2 THEN 3 ELSE m.testCount,
              !.webDriverWait = m.webDriver, !.threadSleep = FALSE,
              !.dummyAssert = FALSE, !.emptyMethods = 0]

\* C12: valid is true exactly when errors is empty, and what only warnings
\* are given for never changes valid; testCount is the number of test
\* annotations, 0 adds an error, 1 or 2 adds a warning and no error, 3 or
\* more adds neither; three test annotations and no teardown hook give
\* valid = false, testCount = 3, an errors entry naming the missing teardown
\* hook and no test-count warning.
C12_ValidAndTestCount ==
    vpc = "done" =>
      /\ result.valid = (result.errors = <<>>)
      /\ result.valid = validateSyntax(code, Unwarned(marks)).valid
      /\ result.testCount = marks.testCount
      /\ marks.testCount = 0 =>
           HasError(result, <<"No @Test methods found">>) /\ ~TestCountWarned(result)
      /\ marks.testCount \in 1..2 =>
           /\ HasWarning(result, <<"@Test count is ", marks.testCount>>)
           /\ ~HasError(result, <<"No @Test methods found">>)
      /\ marks.testCount >= 3 =>
           ~TestCountWarned(result) /\ ~HasError(result, <<"No @Test methods found">>)
      /\ (marks.testCount = 3 /\ ~marks.afterEach) =>
           /\ result.valid = FALSE
           /\ result.testCount = 3
           /\ HasError(result, <<"Missing @AfterEach (WebDriver teardown)">>)
           /\ ~TestCountWarned(result)

\* three test annotations, no teardown hook, nothing else amiss
C12_Witness ==
    /\ vpc = "done"
    /\ injected = NoInjection
    /\ code = <<"{", "}">>
    /\ marks = [GoodMarks EXCEPT !.afterEach = FALSE]
    /\ result = [valid |-> FALSE, testCount |-> 3,
                 errors |-> << <<"Missing @AfterEach (WebDriver teardown)">> >>,
                 warnings |-> <<>>]

----------------------------------------------------------------------------
(* The two brace scans side by side, checked under SpecSplit.              *)

\* the depth counter of splitTestMethods' while loop when its i reaches `stop`
RECURSIVE DepthAt(_, _, _, _)
DepthAt(text, i, depth, stop) ==
    IF ScanGuard(text, i, depth) /\ i < stop
      THEN DepthAt(text, i + 1,
                   IF At(text, i) = "{" THEN depth + 1
                   ELSE IF At(text, i) = "}" THEN depth - 1
                   ELSE depth,
                   stop)
      ELSE depth

\* the depth counter of validateSyntax's for loop, run over the text that
\* follows position `from`, when it has read up to position `stop` of the
\* whole text
CheckerDepthAt(text, from, stop) ==
    BraceScan(Slice(text, from, Len(text)), ScanStart, stop - from).depth

\* C13: run over the same characters from the same start (the character after
\* a method's opening brace, one brace open), the depth counter of
\* splitTestMethods and the depth counter of validateSyntax agree at every
\* position up to the end of the method's segment: both count exactly the
\* same braces.
C13_SameDiscipline ==
    \A k \in 1..Len(spans) :
      \A j \in (spans[k].startBrace + 1)..spans[k].i :
        DepthAt(code, spans[k].startBrace + 1, 1, j)
          = 1 + CheckerDepthAt(code, spans[k].startBrace + 1, j)

----------------------------------------------------------------------------
(* byToSelector (extract-actions.mjs).                                     *)
(*                                                                         *)
(* A locator expression is a sequence of tokens: the By.xxx names the      *)
(* regular expressions spell out are one token each, every other token is  *)
(* one character.                                                          *)

MaxValueLen == 2

\* the locator kinds in the order byToSelector tries them
RuleKinds ==
    <<"By.id", "By.name", "By.cssSelector", "By.xpath", "By.className", "By.tagName",
      "By.linkText">>

OtherKind == "By.partialLinkText"

ByKinds == { RuleKinds[k] : k \in 1..Len(RuleKinds) } \cup { OtherKind }

ValueChars == { "v", "#", "." }

Values == UNION { [1..n -> ValueChars] : n \in 1..MaxValueLen }

\* By.kind("value")
Locator(kind, value) == <<kind, "(", Quote>> \o value \o <<Quote, ")">>

\* By.kind ( "value" )
SpacedLocator(kind, value) == <<kind, " ", "(", " ", Quote>> \o value \o <<Quote, " ", ")">>

\* By.kind(u), By.kind("") : an argument that is not a non-empty string literal
UnquotedLocator(kind) == <<kind, "(", "u", ")">>
EmptyLocator(kind) == <<kind, "(", Quote, Quote, ")">>

LocatorExprs ==
    { Locator(k, v) : k \in ByKinds, v \in Values }
    \cup { SpacedLocator(k, v) : k \in ByKinds, v \in Values }
    \cup { UnquotedLocator(k) : k \in ByKinds }
    \cup { EmptyLocator(k) : k \in ByKinds }
    \cup { Locator(k1, <<"v">>) \o Locator(k2, <<"#">>) : k1, k2 \in ByKinds }

\* \s* : the first position at or after i that holds no white space (1-based)
RECURSIVE SkipWs(_, _)
SkipWs(s, i) == IF i <= Len(s) /\ s[i] = " " THEN SkipWs(s, i + 1) ELSE i

\* /By\.kind\s*\(\s*"([^"]+)"\s*\)/ matches at position p
ByMatchAt(s, kind, p) ==
    LET a == SkipWs(s, p + 1)      \* the "("
        b == SkipWs(s, a + 1)      \* the opening quote
        e == RunEnd(s, b + 1)      \* the closing quote
        c == SkipWs(s, e + 1)      \* the ")"
    IN  /\ s[p] = kind
        /\ a <= Len(s) /\ s[a] = "("
        /\ b <= Len(s) /\ s[b] = Quote
        /\ e > b + 1
        /\ e <= Len(s)
        /\ c <= Len(s) /\ s[c] = ")"

\* m = byExpr.match(/By\.kind\s*\(\s*"([^"]+)"\s*\)/): m[1] of the leftmost
\* match, or <<>> for m === null (a group is never empty)
ByMatch(s, kind) ==
    LET starts == { p \in 1..Len(s) : ByMatchAt(s, kind, p) }
    IN  IF starts = {} THEN <<>>
        ELSE LET p == CHOOSE x \in starts : \A y \in starts : x <= y
                 b == SkipWs(s, SkipWs(s, p + 1) + 1)
             IN  SubSeq(s, b + 1, RunEnd(s, b + 1) - 1)

\* mutant of IdSelector: the id prefix is left out
IdSelectorBare(v) == v

\* `#${m[1]}`
IdSelector(v) == <<"#">> \o v

\* `[name="${m[1]}"]`
NameSelector(v) == NamePrefix \o <<Quote>> \o v \o <<Quote, "]">>

\* `xpath=${m[1]}`
XpathSelector(v) == <<"x", "p", "a", "t", "h", "=">> \o v

\* mutant of ClassSelector: the class locator gets the id prefix
ClassSelectorAsId(v) == <<"#">> \o v

\* `.${m[1]}`
ClassSelector(v) == <<".">> \o v

\* `text="${m[1]}"`
TextSelector(v) == <<"t", "e", "x", "t", "=", Quote>> \o v \o <<Quote>>

byToSelector(expr) ==
    IF ByMatch(expr, "By.id") # <<>> THEN IdSelector(ByMatch(expr, "By.id"))
    ELSE IF ByMatch(expr, "By.name") # <<>> THEN NameSelector(ByMatch(expr, "By.name"))
    ELSE IF ByMatch(expr, "By.cssSelector") # <<>> THEN ByMatch(expr, "By.cssSelector")
    ELSE IF ByMatch(expr, "By.xpath") # <<>> THEN XpathSelector(ByMatch(expr, "By.xpath"))
    ELSE IF ByMatch(expr, "By.className") # <<>>
      THEN ClassSelector(ByMatch(expr, "By.className"))
    ELSE IF ByMatch(expr, "By.tagName") # <<>> THEN ByMatch(expr, "By.tagName")
    ELSE IF ByMatch(expr, "By.linkText") # <<>> THEN TextSelector(ByMatch(expr, "By.linkText"))
    ELSE expr

InitLocator ==
    /\ byExpr \in LocatorExprs
    /\ normalized = <<>>
    /\ description = <<>>
    /\ lpc = "call"
    /\ body = <<>>
    /\ extracted = <<>>
    /\ epc = "idle"
    /\ code = <<>>
    /\ CompileIdle
    /\ SplitIdle
    /\ SyntaxIdle
    /\ ToolIdle

\* const selector = byToSelector(m[1])
Normalize ==
    /\ lpc = "call"
    /\ normalized' = byToSelector(byExpr)
    /\ lpc' = "normalized"
    /\ UNCHANGED <<byExpr, description, body, extracted, epc>>
    /\ UNCHANGED <<code, compileVars, splitVars, syntaxVars, toolVars>>

\* element: selectorToDescription(action.selector)
Describe ==
    /\ lpc = "normalized"
    /\ description' = selectorToDescription(normalized)
    /\ lpc' = "described"
    /\ UNCHANGED <<byExpr, normalized, body, extracted, epc>>
    /\ UNCHANGED <<code, compileVars, splitVars, syntaxVars, toolVars>>

NextLocator ==
    \/ Normalize
    \/ Describe

SpecLocator == InitLocator /\ [][NextLocator]_vars

----------------------------------------------------------------------------
(* Claims about the Locator Normalizer, checked under SpecLocator.         *)

\* the place of a locator kind in the order of the rules, 0 for a kind that
\* has no rule
RuleRank(kind) ==
    IF \E k \in 1..Len(RuleKinds) : RuleKinds[k] = kind
      THEN CHOOSE k \in 1..Len(RuleKinds) : RuleKinds[k] = kind
      ELSE 0

\* the table of the rules: id, name, css, xpath, class, tag, link text
Canonical(kind, v) ==
    CASE kind = "By.id"          -> <<"#">> \o v
      [] kind = "By.name"        -> <<"[", "n", "a", "m", "e", "=", "\"">> \o v \o <<"\"", "]">>
      [] kind = "By.cssSelector" -> v
      [] kind = "By.xpath"       -> <<"x", "p", "a", "t", "h", "=">> \o v
      [] kind = "By.className"   -> <<".">> \o v
      [] kind = "By.tagName"     -> v
      [] kind = "By.linkText"    -> <<"t", "e", "x", "t", "=", "\"">> \o v \o <<"\"">>

\* what the first matching rule gives for two locators written one after the
\* other
FirstOfTwo(k1, v1, k2, v2) ==
    IF RuleRank(k1) = 0 /\ RuleRank(k2) = 0 THEN Locator(k1, v1) \o Locator(k2, v2)
    ELSE IF RuleRank(k2) = 0 \/ (RuleRank(k1) # 0 /\ RuleRank(k1) <= RuleRank(k2))
      THEN Canonical(k1, v1)
    ELSE Canonical(k2, v2)

\* C15: byToSelector maps a locator expression by the first matching rule in
\* the order id, name, css, xpath, class, tag, link-text to #v, [name="v"], v,
\* xpath=v, .v, v, text="v"; an expression that matches none of the rules (a
\* kind without a rule, an argument that is not a non-empty string literal)
\* is returned unchanged.
C15_FirstMatchingRule ==
    lpc # "call" =>
      /\ \A k \in ByKinds, v \in Values :
           byExpr \in { Locator(k, v), SpacedLocator(k, v) } =>
             normalized = IF RuleRank(k) # 0 THEN Canonical(k, v) ELSE byExpr
      /\ \A k1, k2 \in ByKinds :
           byExpr = Locator(k1, <<"v">>) \o Locator(k2, <<"#">>) =>
             normalized = FirstOfTwo(k1, <<"v">>, k2, <<"#">>)
      /\ \A k \in ByKinds :
           byExpr \in { UnquotedLocator(k), EmptyLocator(k) } => normalized = byExpr

\* a name locator written before an id locator: the id rule is tried first
C15_Witness ==
    /\ lpc = "normalized"
    /\ byExpr = Locator("By.name", <<"v">>) \o Locator("By.id", <<"#">>)
    /\ normalized = <<"#", "#">>

\* s has v as a substring
Contains(s, v) == \E i \in 1..(Len(s) - Len(v) + 1) : SubSeq(s, i, i + Len(v) - 1) = v

\* the words with which a description names a locator kind
KindWords(kind) ==
    CASE kind = "By.id"        -> "element with id="
      [] kind = "By.name"      -> "input with name="
      [] kind = "By.className" -> "element with class="

RoundTrips(kind, v) ==
    /\ Contains(description, v)
    /\ kind # "By.tagName" => description[1] = KindWords(kind)

DescribedKinds == { "By.id", "By.name", "By.className", "By.tagName" }

ReadsAsTag(v) ==
    /\ ~StartsWith(v, <<"#">>)
    /\ ~StartsWith(v, <<".">>)
    /\ ~StartsWith(v, <<"[", "n", "a", "m", "e", "=">>)
    /\ ~StartsWith(v, <<"t", "e", "x", "t", "=">>)
    /\ ~StartsWith(v, <<"x", "p", "a", "t", "h", "=">>)

----------------------------------------------------------------------------
(* extractActionsFromBody (extract-actions.mjs).                           *)
(*                                                                         *)
(* A method body is the sequence, in textual order, of the constructs the  *)
(* ten regular expressions look for; each construct holds the text its     *)
(* capture groups take, as tokens.  What matchAll finds for one regular    *)
(* expression is then the constructs of its kinds, in order.  The text of  *)
(* an assertEquals(..., findElement(...).getText()) also contains the      *)
(* findElement(...).getText() the get_text expression looks for.           *)

MaxItems == 3

\* String.prototype.trim
RECURSIVE TrimStart(_)
TrimStart(s) == IF s # <<>> /\ Head(s) = " " THEN TrimStart(Tail(s)) ELSE s

RECURSIVE TrimEnd(_)
TrimEnd(s) == IF s # <<>> /\ s[Len(s)] = " " THEN TrimEnd(SubSeq(s, 1, Len(s) - 1)) ELSE s

Trim(s) == TrimEnd(TrimStart(s))

\* expr.match(/^"([^"]+)"$/)  (minLen 1)  and  expr.match(/^"([^"]*)"$/)  (minLen 0)
IsLiteral(expr, minLen) ==
    /\ Len(expr) >= minLen + 2
    /\ expr[1] = Quote
    /\ expr[Len(expr)] = Quote
    /\ \A i \in 2..(Len(expr) - 1) : expr[i] # Quote

\* `{{ ${expr} }}`
Deferred(expr) == <<"{", "{", " ">> \o expr \o <<" ", "}", "}">>

\* literal ? literal[1] : `{{ ${expr} }}`
LiteralOrDeferred(expr, minLen) ==
    IF IsLiteral(expr, minLen) THEN SubSeq(expr, 2, Len(expr) - 1) ELSE Deferred(expr)

\* what ([^)]+) takes in driver.get( ... ): a literal, a literal followed by
\* white space, a variable, an empty literal
UrlExprs == { <<Quote, "a", Quote>>, <<Quote, "b", Quote, " ">>, <<"u">>, <<Quote, Quote>> }

\* what ([^)]+) takes in sendKeys( ... )
ValueExprs == { <<Quote, "x", Quote>>, <<Quote, Quote>>, <<"u">> }

\* what (By\.[^)]+\)) takes
ByArgs ==
    { Locator("By.id", <<"v">>), Locator("By.tagName", <<"v">>), UnquotedLocator("By.id"),
      Locator(OtherKind, <<"v">>) }

\* what ([^;]+) takes in assertTrue( ... ) and assertFalse( ... )
BoolExprs == { <<"true">>, <<" ", "true">>, <<"e">> }

Constructs ==
    { [kind |-> "get", arg |-> u] : u \in UrlExprs }
    \cup { [kind |-> "sendKeys", by |-> Locator("By.id", <<"v">>), arg |-> a] : a \in ValueExprs }
    \cup { [kind |-> "click", by |-> b] : b \in ByArgs }
    \cup { [kind |-> k, by |-> Locator("By.name", <<"v">>)] :
             k \in {"clear", "getText", "until", "size"} }
    \cup { [kind |-> "assertEquals", expected |-> <<"e">>, by |-> Locator("By.className", <<"v">>)] }
    \cup { [kind |-> "assertTrue", arg |-> e] : e \in BoolExprs }
    \cup { [kind |-> "assertFalse", arg |-> <<"true">>] }
    \cup { [kind |-> "other"] }

Bodies == UNION { [1..n -> Constructs] : n \in 0..MaxItems }

\* body.matchAll(re): the constructs the regular expression matches, in order
MatchAll(b, kinds) == SelectSeq(b, LAMBDA c : c.kind \in kinds)

NavigateAction(m) == [type |-> "navigate", url |-> LiteralOrDeferred(Trim(m.arg), 1)]

FillAction(m) ==
    [type |-> "fill", selector |-> byToSelector(m.by),
     value |-> LiteralOrDeferred(Trim(m.arg), 0)]

ClearAction(m) == [type |-> "clear", selector |-> byToSelector(m.by)]
ClickAction(m) == [type |-> "click", selector |-> byToSelector(m.by)]
GetTextAction(m) == [type |-> "get_text", selector |-> byToSelector(m.by)]

AssertTextAction(m) ==
    [type |-> "assert_text", selector |-> byToSelector(m.by), expected |-> m.expected]

AssertTrueAction(m) == [type |-> "assert_true", expression |-> Trim(m.arg)]
AssertFalseAction(m) == [type |-> "assert_false", expression |-> Trim(m.arg)]
WaitAction(m) == [type |-> "wait", selector |-> byToSelector(m.by)]
CountElementsAction(m) == [type |-> "count_elements", selector |-> byToSelector(m.by)]

\* body.matchAll(...) of the for-of loop that pushes actions of the type, less
\* the matches the loop body skips (if (expr !== "true"))
Matched(type, b) ==
    CASE type = "navigate"       -> MatchAll(b, {"get"})
      [] type = "fill"           -> MatchAll(b, {"sendKeys"})
      [] type = "clear"          -> MatchAll(b, {"clear"})
      [] type = "click"          -> MatchAll(b, {"click"})
      [] type = "get_text"       -> MatchAll(b, {"getText", "assertEquals"})
      [] type = "assert_text"    -> MatchAll(b, {"assertEquals"})
      [] type = "assert_true"    ->
           SelectSeq(MatchAll(b, {"assertTrue"}), LAMBDA m : Trim(m.arg) # <<"true">>)
      [] type = "assert_false"   -> MatchAll(b, {"assertFalse"})
      [] type = "wait"           -> MatchAll(b, {"until"})
      [] type = "count_elements" -> MatchAll(b, {"size"})

\* actions.push({ type, ... }) for the match m
Pushed(type, m) ==
    CASE type = "navigate"       -> NavigateAction(m)
      [] type = "fill"           -> FillAction(m)
      [] type = "clear"          -> ClearAction(m)
      [] type = "click"          -> ClickAction(m)
      [] type = "get_text"       -> GetTextAction(m)
      [] type = "assert_text"    -> AssertTextAction(m)
      [] type = "assert_true"    -> AssertTrueAction(m)
      [] type = "assert_false"   -> AssertFalseAction(m)
      [] type = "wait"           -> WaitAction(m)
      [] type = "count_elements" -> CountElementsAction(m)

\* one for-of loop of extractActionsFromBody: what it pushes
Pass(type, b) == [i \in 1..Len(Matched(type, b)) |-> Pushed(type, Matched(type, b)[i])]

\* mutant of PassOrder: the click loop runs before the fill and clear loops
PassOrderClickFirst ==
    <<"navigate", "click", "fill", "clear", "get_text", "assert_text", "assert_true",
      "assert_false", "wait", "count_elements">>

\* the order of the for-of loops in extractActionsFromBody
PassOrder ==
    <<"navigate", "fill", "clear", "click", "get_text", "assert_text", "assert_true",
      "assert_false", "wait", "count_elements">>

RECURSIVE Passes(_, _)
Passes(order, b) ==
    IF order = <<>> THEN <<>> ELSE Pass(Head(order), b) \o Passes(Tail(order), b)

extractActionsFromBody(b) == Passes(PassOrder, b)

InitExtract ==
    /\ body \in Bodies
    /\ extracted = <<>>
    /\ epc = "call"
    /\ byExpr = <<>>
    /\ normalized = <<>>
    /\ description = <<>>
    /\ lpc = "idle"
    /\ code = <<>>
    /\ CompileIdle
    /\ SplitIdle
    /\ SyntaxIdle
    /\ ToolIdle

\* actions: extractActionsFromBody(body)
Extract ==
    /\ epc = "call"
    /\ extracted' = extractActionsFromBody(body)
    /\ epc' = "done"
    /\ UNCHANGED <<body, byExpr, normalized, description, lpc>>
    /\ UNCHANGED <<code, compileVars, splitVars, syntaxVars, toolVars>>

NextExtract == Extract

SpecExtract == InitExtract /\ [][NextExtract]_vars

----------------------------------------------------------------------------
(* Claims about the Action Recognizer, checked under SpecExtract.          *)

\* C14: every selector field of every action returned by
\* extractActionsFromBody is in canonical form; no action carries a raw
\* source-level locator expression By.xxx(...).
C14_SelectorsCanonical ==
    epc = "done" =>
      \A i \in 1..Len(extracted) :
        "selector" \in DOMAIN extracted[i] => extracted[i].selector[1] \notin ByKinds

\* the place of an action type in the order of the groups
GroupRank(type) ==
    CASE type = "navigate" -> 1 [] type = "fill" -> 2 [] type = "clear" -> 3
      [] type = "click" -> 4 [] type = "get_text" -> 5 [] type = "assert_text" -> 6
      [] type = "assert_true" -> 7 [] type = "assert_false" -> 8 [] type = "wait" -> 9
      [] type = "count_elements" -> 10

OfType(as, type) == SelectSeq(as, LAMBDA a : a.type = type)

\* C17: the returned list is grouped by construct kind in the order navigate,
\* fill, clear, click, get_text, assert_text, assert_true, assert_false, wait,
\* count_elements, whatever the source positions; within one kind the actions
\* are in order of textual appearance.
C17_GroupedByKind ==
    epc = "done" =>
      /\ \A i, j \in 1..Len(extracted) :
           i < j => GroupRank(extracted[i].type) <= GroupRank(extracted[j].type)
      /\ \A t \in KnownTypes : OfType(extracted, t) = Pass(t, body)

\* a click written before the navigation and a second click after it
C17_Witness ==
    /\ epc = "done"
    /\ body = << [kind |-> "click", by |-> Locator("By.tagName", <<"v">>)],
                 [kind |-> "get", arg |-> <<"u">>],
                 [kind |-> "click", by |-> Locator("By.id", <<"v">>)] >>
    /\ extracted = << [type |-> "navigate", url |-> <<"{", "{", " ", "u", " ", "}", "}">>],
                      [type |-> "click", selector |-> <<"v">>],
                      [type |-> "click", selector |-> <<"#", "v">>] >>

----------------------------------------------------------------------------
(* The tool server: compile (compile.mjs), handleTool and the              *)
(* CallToolRequestSchema handler (index.mjs).                              *)
(*                                                                         *)
(* `world` holds what the calls into the file system and the javac child   *)
(* process will do; a function that can throw returns either               *)
(* [threw |-> FALSE, value |-> v] or [threw |-> TRUE, error |-> e].        *)

MaxOutLen == 2

ToolNames == { "validate_syntax", "compile", "validate_spec", "extract_actions" }

\* a name the switch of handleTool has no case for
UnknownTool == "format"

\* request.params: the name, and whether the arguments hold a feature
Requests == [name : ToolNames \cup {UnknownTool}, feature : BOOLEAN]

\* what javac writes to stderr
Outputs == UNION { [1..n -> {"e", " ", "\n"}] : n \in 0..MaxOutLen }

\* exists:   fs.existsSync(path) (false too when the argument is missing)
\* readable: fs.readFileSync(path) returns (it throws for a directory)
\* javac:    execFileAsync("javac", ["-version"]) resolves
\* tmpdir:   fs.mkdtempSync(...) returns
\* run:      how execFileAsync("javac", args, { timeout: 30_000 }) ends
\* stderr:   what javac has written to stderr by then
Worlds ==
    [exists : BOOLEAN, readable : BOOLEAN, javac : BOOLEAN, tmpdir : BOOLEAN,
     run : {"exit0", "nonzero", "timeout"}, stderr : Outputs]

Returns(v) == [threw |-> FALSE, value |-> v]
Throws(e) == [threw |-> TRUE, error |-> e]

\* raw.split("\n"), the last piece first in `piece`
RECURSIVE SplitLines(_, _)
SplitLines(raw, piece) ==
    IF raw = <<>> THEN <<piece>>
    ELSE IF Head(raw) = "\n" THEN <<piece>> \o SplitLines(Tail(raw), <<>>)
    ELSE SplitLines(Tail(raw), Append(piece, Head(raw)))

\* raw.split("\n").map((l) => l.trim()).filter(Boolean)
ErrorLines(raw) ==
    SelectSeq([i \in 1..Len(SplitLines(raw, <<>>)) |-> Trim(SplitLines(raw, <<>>)[i])],
              LAMBDA l : l # <<>>)

\* the catch block of compile: a non-zero exit and the timeout both come here
CompileCaught(raw) == [status |-> "error", output |-> raw, errors |-> ErrorLines(raw)]

\* compile(filePath, classpath)
compile(w) ==
    IF ~w.exists
      THEN Returns([status |-> "error", output |-> <<>>,
                    errors |-> << <<"File not found: ", "filePath">> >>])
    ELSE IF ~w.javac
      THEN Returns([status |-> "skipped",
                    output |-> <<"javac not found. Install JDK to enable compilation.">>,
                    errors |-> <<>>])
    ELSE IF ~w.tmpdir THEN Throws("mkdtempSync")
    ELSE IF w.run = "exit0"
      THEN Returns([status |-> "ok",
                    output |-> IF w.stderr # <<>> THEN w.stderr
                               ELSE <<"Compilation successful.">>,
                    errors |-> <<>>])
    ELSE Returns(CompileCaught(w.stderr))

\* the text of the file the tools read, and what validateSyntax's tests find in it
FileText == <<"{", "}">>

\* if (!fs.existsSync(path)) return { error: `File not found: ${path}` }
NotFound(path) == [error |-> <<"File not found: ", path>>]

\* the three cases that read the file themselves
ReadThen(w, path, outcome) ==
    IF ~w.exists THEN Returns(NotFound(path))
    ELSE IF ~w.readable THEN Throws("readFileSync")
    ELSE outcome

\* handleTool(name, args)
handleTool(t, w) ==
    CASE t.name = "validate_syntax" ->
           ReadThen(w, "java_path", Returns(validateSyntax(FileText, GoodMarks)))
      [] t.name = "compile" -> compile(w)
      [] t.name = "validate_spec" ->
           ReadThen(w, "txt_path",
                    IF ~t.feature THEN Throws("TypeError")      \* feature.includes
                    ELSE Returns([valid |-> TRUE, coverage |-> "note", issues |-> <<>>]))
      [] t.name = "extract_actions" ->
           ReadThen(w, "java_path", Returns([testMethods |-> <<>>]))
      [] OTHER -> Returns([error |-> <<"Unknown tool: ", t.name>>])

\* the try/catch of the CallToolRequestSchema handler
ToolResponse(h) ==
    IF h.threw THEN [content |-> [error |-> <<"String(err)", h.error>>], isError |-> TRUE]
    ELSE [content |-> h.value]

InitTool ==
    /\ tool \in Requests
    /\ world \in Worlds
    /\ handled = NoValue
    /\ response = NoValue
    /\ tpc = "request"
    /\ code = <<>>
    /\ CompileIdle
    /\ SplitIdle
    /\ SyntaxIdle
    /\ ExtractIdle

\* const result = await handleTool(name, args ?? {})
HandleTool ==
    /\ tpc = "request"
    /\ handled' = handleTool(tool, world)
    /\ tpc' = "handled"
    /\ UNCHANGED <<tool, world, response>>
    /\ UNCHANGED <<code, compileVars, splitVars, syntaxVars, extractVars>>

\* return { content: ... }  from the try block or from the catch block
Respond ==
    /\ tpc = "handled"
    /\ response' = ToolResponse(handled)
    /\ tpc' = "responded"
    /\ UNCHANGED <<tool, world, handled>>
    /\ UNCHANGED <<code, compileVars, splitVars, syntaxVars, extractVars>>

NextTool ==
    \/ HandleTool
    \/ Respond

SpecTool == InitTool /\ [][NextTool]_vars

----------------------------------------------------------------------------
(* Claims about the tool server, checked under SpecTool.                   *)

\* the request failed: an unknown name, a missing input file, an exception
Failed ==
    \/ tool.name \notin ToolNames
    \/ ~world.exists
    \/ handled.threw

\* C18: for every tool name and every argument record the handler returns a
\* result record, and every failure, a missing input file for each of the
\* four operations included, is returned as a structured { error } record.
C18_FailuresAreErrorRecords ==
    tpc = "responded" =>
      /\ "content" \in DOMAIN response
      /\ Failed => "error" \in DOMAIN response.content

\* the compiler was started and exited with a non-zero code
RanAndFailed == world.exists /\ world.javac /\ world.tmpdir /\ world.run = "nonzero"

\* the compiler binary is missing, or the compiler was started and timed out
MissingOrTimedOut ==
    world.exists /\ (~world.javac \/ (world.tmpdir /\ world.run = "timeout"))

\* C19: compile returns status "skipped", never "error", whenever the
\* compiler binary is missing or the run times out; it returns "error", with
\* the captured output split into non-empty trimmed lines, only when the
\* compiler ran and exited non-zero; the status is always one of ok, error,
\* skipped.
C19_SkippedNotError ==
    (tpc = "handled" /\ tool.name = "compile" /\ ~handled.threw) =>
      /\ handled.value.status \in {"ok", "error", "skipped"}
      /\ MissingOrTimedOut => handled.value.status = "skipped"
      /\ handled.value.status = "error" =>
           RanAndFailed /\ handled.value.errors = ErrorLines(world.stderr)

----------------------------------------------------------------------------
(* The lowering of a navigate action, checked under SpecFresh (below).     *)

\* a url of the form "{{ expr }}", as extractActionsFromBody writes a url
\* that is not a string literal
IsDeferred(url) ==
    /\ Len(url) >= 6
    /\ SubSeq(url, 1, 3) = <<"{", "{", " ">>
    /\ SubSeq(url, Len(url) - 2, Len(url)) = <<" ", "}", "}">>

NavigateTarget(a, base) == IF IsDeferred(a.url) THEN base ELSE a.url

----------------------------------------------------------------------------
(* The per-method snapshot state, checked under SpecFresh: the compile loop *)
(* and post-pass on every action list up to MaxFreshActions.               *)

MaxFreshActions == 3

FreshLists == UNION { [1..n -> ActionSet] : n \in 0..MaxFreshActions }

InitFresh ==
    /\ code = <<>>
    /\ SplitIdle
    /\ SyntaxIdle
    /\ ExtractIdle
    /\ ToolIdle
    /\ baseUrl \in BaseUrls
    /\ actions \in FreshLists
    /\ idx = 0
    /\ seq = 1
    /\ snapshotted = {}
    /\ currentUrl = <<>>
    /\ playwrightSteps = <<>>
    /\ pc = "loop"

SpecFresh == InitFresh /\ [][NextCompile]_vars

InvalidatingTypes == {"click", "wait"}

\* C21: compiling a click or a wait action removes the current URL, and
\* nothing else, from the snapshot-fresh set; compiling an action of any
\* other type (fill, clear, get_text, assert_text, assert_true, assert_false,
\* count_elements, navigate, an unknown type) removes no URL from the set;
\* no action type other than navigate changes the current URL.
C21_FrameOfSnapshotState ==
    [][ (pc = "loop" /\ idx' = idx + 1) =>
          LET type == actions[idx + 1].type
          IN  /\ type \in InvalidatingTypes =>
                   /\ currentUrl \notin snapshotted'
                   /\ snapshotted' = snapshotted \ {currentUrl}
              /\ type \notin InvalidatingTypes => snapshotted \subseteq snapshotted'
              /\ type # "navigate" => currentUrl' = currentUrl ]_vars

\* a wait compiled on a fresh page, with another URL still in the set
C21_Witness ==
    /\ pc = "loop"
    /\ idx = 3
    /\ Types(actions) = <<"navigate", "navigate", "wait">>
    /\ actions[1].url = <<"a">>
    /\ actions[2].url = <<"b">>
    /\ currentUrl = <<"b">>
    /\ snapshotted = { <<"a">> }

PageChanging == {"browser_navigate", "browser_click", "browser_wait_for"}

\* the nearest browser_snapshot step before step i, with no page-changing
\* step between it and step i
SnapshotCovers(steps, i) ==
    \E j \in 1..(i - 1) :
      /\ steps[j].mcp_tool = "browser_snapshot"
      /\ \A k \in (j + 1)..(i - 1) : steps[k].mcp_tool \notin PageChanging

\* C22: in every final plan each browser_click and browser_fill_form step is
\* preceded by a browser_snapshot step with no browser_navigate,
\* browser_click or browser_wait_for step between that snapshot and it.
C22_RefFromFreshSnapshot ==
    pc = "done" =>
      \A i \in 1..Len(playwrightSteps) :
        playwrightSteps[i].mcp_tool \in {"browser_click", "browser_fill_form"}
          => SnapshotCovers(playwrightSteps, i)

\* a fill after a wait on a page that had been snapshotted
C22_Witness ==
    /\ pc = "done"
    /\ Types(actions) = <<"navigate", "wait", "fill">>
    /\ Tools(playwrightSteps)
         = <<"browser_navigate", "browser_snapshot", "browser_wait_for", "browser_snapshot",
             "browser_fill_form">>

----------------------------------------------------------------------------
(* From a method body to its plan: extractActionsFromBody, then the        *)
(* compile loop and post-pass of playwright-bridge.mjs on the list it      *)
(* returned (the JSON file in between holds the list unchanged).           *)

MaxPipeItems == 3

\* constructs of every group that matters to the head of the plan: literal
\* and deferred navigations, element actions with canonical and raw
\* selectors, a wait, an assertion that is skipped, one that is kept, and
\* text no regular expression matches
PipeConstructs ==
    { [kind |-> "get", arg |-> <<Quote, "a", Quote>>],
      [kind |-> "get", arg |-> <<"u">>],
      [kind |-> "click", by |-> Locator("By.id", <<"v">>)],
      [kind |-> "click", by |-> UnquotedLocator("By.id")],
      [kind |-> "sendKeys", by |-> Locator("By.id", <<"v">>), arg |-> <<"u">>],
      [kind |-> "getText", by |-> Locator("By.name", <<"v">>)],
      [kind |-> "until", by |-> Locator("By.name", <<"v">>)],
      [kind |-> "assertTrue", arg |-> <<"true">>],
      [kind |-> "assertTrue", arg |-> <<"e">>],
      [kind |-> "other"] }

PipeBodies == UNION { [1..n -> PipeConstructs] : n \in 0..MaxPipeItems }

InitPipeline ==
    /\ body \in PipeBodies
    /\ extracted = <<>>
    /\ epc = "call"
    /\ byExpr = <<>>
    /\ normalized = <<>>
    /\ description = <<>>
    /\ lpc = "idle"
    /\ code = <<>>
    /\ CompileIdle
    /\ SplitIdle
    /\ SyntaxIdle
    /\ ToolIdle

\* const { testMethods } = JSON.parse(...); testMethods.map((method) => { ... }):
\* the callback starts on method.actions with the base URL of the command line
Handoff ==
    /\ epc = "done"
    /\ pc = "idle"
    /\ baseUrl' \in BaseUrls
    /\ actions' = extracted
    /\ pc' = "loop"
    /\ UNCHANGED <<idx, seq, snapshotted, currentUrl, playwrightSteps>>
    /\ UNCHANGED <<code, splitVars, syntaxVars, extractVars, toolVars>>

NextPipeline ==
    \/ Extract
    \/ Handoff
    \/ CompileAction
    \/ LoopEnd
    \/ PostPass

SpecPipeline == InitPipeline /\ [][NextPipeline]_vars

----------------------------------------------------------------------------
(* Claims about the pipeline, checked under SpecPipeline.                  *)

\* a step that names the element it acts on or reads
TargetsElement(step) == Has(step, "selector_hint")

\* C23: for any method body, the plan compiled from the action list that
\* extractActionsFromBody returns is empty, or its first step has seq 1 and
\* is a browser_navigate step immediately followed by a browser_snapshot
\* step; no element-targeting step precedes the first navigation.
C23_PlanStartsWithNavigation ==
    (epc = "done" /\ pc = "done") =>
      \/ playwrightSteps = <<>>
      \/ /\ Len(playwrightSteps) >= 2
         /\ playwrightSteps[1].mcp_tool = "browser_navigate"
         /\ playwrightSteps[1].seq = Whole(1)
         /\ playwrightSteps[2].mcp_tool = "browser_snapshot"
         /\ \A i \in 1..Len(playwrightSteps) :
              TargetsElement(playwrightSteps[i]) =>
                \E j \in 1..(i - 1) : playwrightSteps[j].mcp_tool = "browser_navigate"

\* a body whose click is written before its navigation
C23_Witness ==
    /\ epc = "done"
    /\ pc = "done"
    /\ body = << [kind |-> "click", by |-> Locator("By.id", <<"v">>)],
                 [kind |-> "get", arg |-> <<"u">>] >>
    /\ Types(actions) = <<"navigate", "click">>
    /\ Tools(playwrightSteps) = <<"browser_navigate", "browser_snapshot", "browser_click">>
    /\ playwrightSteps[1].args.url = baseUrl

====
